---- MODULE Spec2Model ----
(***************************************************************************)
(* The OR-tools solver interface of cpmpy (ORToolsPython): solve,          *)
(* make_model, convert_subexpr and post_constraint, together with the      *)
(* variable extractor get_variables / vars_expr.                           *)
(*                                                                         *)
(* Expressions are records tagged by "kind"; the native (OR-tools) side is *)
(* a list of native variables, a list of posted native constraints and an  *)
(* objective.  Raised exceptions are records of kind "error".  The search  *)
(* of the native solver is not modelled: its result code and the values it *)
(* reports are chosen nondeterministically.                                *)
(***************************************************************************)
EXTENDS Integers, Sequences, FiniteSets, TLC

\* ---------------------------------------------------------------- bounds
\* largest upper bound of an integer variable of the input models
MaxVal == 2
\* longest vectorized side of a comparison of the input models
MaxLen == 3

\* ------------------------------------------------------------- variables
UserVars == {"b1", "b2", "x"}
\* "f1": introduced by flattening; "d1", "d2": introduced by decompositions
AuxVars == {"f1", "d1", "d2"}
AllVars == UserVars \cup AuxVars

IsBoolVarName(v) == v \in {"b1", "b2", "d2"}
Lb(v) == 0
Ub(v) == IF IsBoolVarName(v) THEN 1 ELSE MaxVal

\* ----------------------------------------------------------- expressions
None == [kind |-> "none"]
Var(v) == [kind |-> "var", name |-> v]
Neg(v) == [kind |-> "neg", bv |-> v]
Num(n) == [kind |-> "num", val |-> n]
List(s) == [kind |-> "list", args |-> s]
Op(n, s) == [kind |-> "op", name |-> n, args |-> s]
Cmp(n, l, r) == [kind |-> "cmp", name |-> n, args |-> <<l, r>>]
Elem(arr, idx) == [kind |-> "elem", name |-> "element", args |-> <<arr, idx>>]
Glob(n, s) == [kind |-> "global", name |-> n, args |-> s]
\* an object of a class none of the translators knows
Other == [kind |-> "other"]

Err(w) == [kind |-> "error", what |-> w]
IsErr(r) == r.kind = "error"

HasArgs(e) == e.kind \in {"list", "op", "cmp", "elem", "global"}
IsBoolVarImpl(e) == e.kind = "var" /\ IsBoolVarName(e.name)
IsIntVarImpl(e) == e.kind = "var"

\* the first exception raised while a list comprehension evaluates left to right
FirstErr(s) == s[CHOOSE i \in 1..Len(s) : IsErr(s[i]) /\ \A j \in 1..(i-1) : ~IsErr(s[j])]
AnyErr(s) == \E i \in 1..Len(s) : IsErr(s[i])

RECURSIVE Flat(_)
Flat(ss) == IF ss = <<>> THEN <<>> ELSE Head(ss) \o Flat(Tail(ss))

Max2(a, b) == IF a >= b THEN a ELSE b

\* ------------------------------------------------------ get_variables.py
\* a negated view has no identity of its own: its variable is the one it views
VarsOfView(e) == <<e.bv>>

RECURSIVE vars_expr(_)
vars_expr(e) ==
    IF HasArgs(e) THEN Flat([i \in 1..Len(e.args) |-> vars_expr(e.args[i])])
    ELSE IF e.kind = "var" THEN <<e.name>>
    ELSE IF e.kind = "neg" THEN VarsOfView(e)
    ELSE <<>>

\* vars_expr raises on an expression of a class it does not know
RECURSIVE vars_expr_raises(_)
vars_expr_raises(e) ==
    IF HasArgs(e) THEN \E i \in 1..Len(e.args) : vars_expr_raises(e.args[i])
    ELSE e.kind = "other"

RECURSIVE uniquify(_)
uniquify(s) ==
    IF s = <<>> THEN <<>>
    ELSE LET init == uniquify(SubSeq(s, 1, Len(s) - 1))
             x == s[Len(s)]
         IN IF \E i \in 1..Len(init) : init[i] = x THEN init ELSE Append(init, x)

ObjectiveExprs(m) == IF m.objective = None THEN <<>> ELSE <<m.objective>>

get_variables(m) ==
    LET es == m.constraints \o ObjectiveExprs(m)
    IN IF \E i \in 1..Len(es) : vars_expr_raises(es[i])
       THEN Err("Exception")
       ELSE List(uniquify(Flat([i \in 1..Len(es) |-> vars_expr(es[i])])))

\* ------------------------------------------- flattening and decomposition
\* flatten_constraint: an operator argument nested inside the left operator
\* of a comparison is replaced by the fresh variable f1, defined first
IsNested(e) == /\ e.kind = "cmp"
               /\ e.args[1].kind = "op"
               /\ \E i \in 1..Len(e.args[1].args) : e.args[1].args[i].kind = "op"

NestedAt(e) == CHOOSE i \in 1..Len(e.args[1].args) :
                 /\ e.args[1].args[i].kind = "op"
                 /\ \A j \in 1..(i-1) : e.args[1].args[j].kind # "op"

flatten_one(e) ==
    IF IsNested(e)
    THEN LET i == NestedAt(e)
             inner == e.args[1].args[i]
             outer == [e.args[1] EXCEPT !.args[i] = Var("f1")]
         IN << Cmp("==", inner, Var("f1")), Cmp(e.name, outer, e.args[2]) >>
    ELSE <<e>>

flatten_constraint(cs) == Flat([i \in 1..Len(cs) |-> flatten_one(cs[i])])

flatten_model(m) == [m EXCEPT !.constraints = flatten_constraint(m.constraints)]

\* decompose(): None when the global constraint offers no decomposition.
\*   "gcTwoLevel" decomposes into a "gcOneLevel" constraint over a new variable
\*   and simpler constraints; "gcOneLevel" decomposes into comparisons only.
DecompLevel(e) ==
    IF e.kind # "global" THEN 0
    ELSE IF e.name = "gcTwoLevel" THEN 2
    ELSE IF e.name = "gcOneLevel" THEN 1
    ELSE 0

decompose(e) ==
    IF e.name = "gcTwoLevel"
    THEN List(<< Cmp("!=", Var("d1"), e.args[1]),
                 Glob("gcOneLevel", <<Var("d1"), e.args[1], Var("d2")>>),
                 Op("->", <<Var("d2"), Cmp("<=", Var("d1"), e.args[Len(e.args)])>>) >>)
    ELSE IF e.name = "gcOneLevel"
    THEN List([i \in 1..(Len(e.args) - 1) |-> Cmp("!=", e.args[i], e.args[i+1])])
    ELSE None

\* zipcycle: the sides of a comparison paired cyclically
AsSeq(a) == IF a.kind = "list" THEN a.args ELSE <<a>>

zipcycle(l, r) ==
    LET ls == AsSeq(l)
        rs == AsSeq(r)
        n == Max2(Len(ls), Len(rs))
    IN IF Len(ls) = Len(rs) \/ Len(ls) = 1 \/ Len(rs) = 1
       THEN List([i \in 1..n |-> << ls[((i-1) % Len(ls)) + 1], rs[((i-1) % Len(rs)) + 1] >>])
       ELSE Err("ValueError")

\* ------------------------------------------------------ native (OR-tools)
Handle(i) == [kind |-> "handle", idx |-> i]
NotHandle(i) == [kind |-> "not", idx |-> i]
NExpr(n, s) == [kind |-> "nexpr", name |-> n, args |-> s]
PyBool(b) == [kind |-> "pybool", val |-> b]

\* x.Not(): defined on native boolean literals only
NativeNot(a) ==
    IF a.kind = "handle" THEN NotHandle(a.idx)
    ELSE IF a.kind = "not" THEN Handle(a.idx)
    ELSE Err("AttributeError")

\* Python truth value of a converted argument, as all() and any() take it
Truthy(a) ==
    IF a.kind = "num" THEN a.val # 0
    ELSE IF a.kind = "pybool" THEN a.val
    ELSE IF a.kind = "list" THEN Len(a.args) > 0
    ELSE TRUE

ComparisonNames == {"==", "!=", "<=", "<", ">=", ">"}

NumCompare(n, a, b) ==
    IF n = "==" THEN a = b
    ELSE IF n = "!=" THEN a # b
    ELSE IF n = "<=" THEN a <= b
    ELSE IF n = "<" THEN a < b
    ELSE IF n = ">=" THEN a >= b
    ELSE a > b

\* lvar <name> rvar: a Python bool on two constants, a native bounded
\* expression otherwise
NativeCompare(n, l, r) ==
    IF l.kind = "num" /\ r.kind = "num" THEN PyBool(NumCompare(n, l.val, r.val))
    ELSE NExpr(n, <<l, r>>)

\* the native constraints
AddCt(ct) == [kind |-> "Add", ct |-> ct, enforce |-> None]
AddEnforced(ct, lit) == [kind |-> "Add", ct |-> ct, enforce |-> lit]
AddBoolOr(lits) == [kind |-> "AddBoolOr", lits |-> lits]
AddBoolXor(lits) == [kind |-> "AddBoolXor", lits |-> lits]
AddImplication(a, b) == [kind |-> "AddImplication", a |-> a, b |-> b]
AddElement(index, array, target) ==
    [kind |-> "AddElement", index |-> index, array |-> array, target |-> target]
AddAllDifferent(args) == [kind |-> "AddAllDifferent", args |-> args]
AddMinEquality(target, args) == [kind |-> "AddMinEquality", target |-> target, args |-> args]
AddMaxEquality(target, args) == [kind |-> "AddMaxEquality", target |-> target, args |-> args]

NewBoolVar(n) == [lb |-> 0, ub |-> 1, name |-> n]
NewIntVar(lb, ub, n) == [lb |-> lb, ub |-> ub, name |-> n]

\* ------------------------------------------------------- convert_subexpr
VarLookup(v, vm) == IF v \in DOMAIN vm THEN Handle(vm[v]) ELSE Err("KeyError")

\* ConvertOperator with a fault: 'xor' is given a subexpression form
ConvertOperatorXorConverted(n, args) ==
    IF n = "and" THEN PyBool(\A i \in 1..Len(args) : Truthy(args[i]))
    ELSE IF n = "or" THEN PyBool(\E i \in 1..Len(args) : Truthy(args[i]))
    ELSE IF n = "xor" THEN NExpr("xor", args)
    ELSE IF n = "->"
         THEN IF IsErr(NativeNot(args[1])) THEN NativeNot(args[1])
              ELSE NExpr("|", <<NativeNot(args[1]), args[2]>>)
    ELSE IF n \in {"-", "abs"} THEN NExpr(n, <<args[1]>>)
    ELSE IF n \in {"sub", "mul", "div", "mod", "pow"} THEN NExpr(n, <<args[1], args[2]>>)
    ELSE IF n = "sum" THEN NExpr("sum", args)
    ELSE Err("NotImplementedError")

ConvertOperator(n, args) ==
    IF n = "and" THEN PyBool(\A i \in 1..Len(args) : Truthy(args[i]))
    ELSE IF n = "or" THEN PyBool(\E i \in 1..Len(args) : Truthy(args[i]))
    ELSE IF n = "xor" THEN Err("XorSubexpr")
    ELSE IF n = "->"
         THEN IF IsErr(NativeNot(args[1])) THEN NativeNot(args[1])
              ELSE NExpr("|", <<NativeNot(args[1]), args[2]>>)
    ELSE IF n \in {"-", "abs"} THEN NExpr(n, <<args[1]>>)
    ELSE IF n \in {"sub", "mul", "div", "mod", "pow"} THEN NExpr(n, <<args[1], args[2]>>)
    ELSE IF n = "sum" THEN NExpr("sum", args)
    ELSE Err("NotImplementedError")

ConvertComparison(n, lvar, rvar) ==
    IF n \in ComparisonNames THEN NativeCompare(n, lvar, rvar)
    ELSE Err("NotImplementedError")

RECURSIVE convert_subexpr(_, _)
convert_subexpr(e, vm) ==
    IF e.kind = "num" THEN e
    ELSE IF e.kind = "list"
    THEN LET as == [i \in 1..Len(e.args) |-> convert_subexpr(e.args[i], vm)]
         IN IF AnyErr(as) THEN FirstErr(as) ELSE List(as)
    ELSE IF e.kind = "neg"
    THEN IF IsErr(VarLookup(e.bv, vm)) THEN VarLookup(e.bv, vm)
         ELSE NativeNot(VarLookup(e.bv, vm))
    ELSE IF e.kind = "var" THEN VarLookup(e.name, vm)
    ELSE IF e.kind = "op"
    THEN LET as == [i \in 1..Len(e.args) |-> convert_subexpr(e.args[i], vm)]
         IN IF AnyErr(as) THEN FirstErr(as) ELSE ConvertOperator(e.name, as)
    ELSE IF e.kind = "cmp"
    THEN LET lvar == convert_subexpr(e.args[1], vm)
             rvar == convert_subexpr(e.args[2], vm)
         IN IF IsErr(lvar) THEN lvar
            ELSE IF IsErr(rvar) THEN rvar
            ELSE ConvertComparison(e.name, lvar, rvar)
    ELSE Err("NotImplementedError")

ConvertArgs(e, vm) == [i \in 1..Len(e.args) |-> convert_subexpr(e.args[i], vm)]

\* ------------------------------------------------------- post_constraint
\* the outcome of one call: the exception raised ("none" when it returns), the
\* native constraints added, the registry and the native variables after it,
\* and the constraints it goes on to post recursively
Posted(cons, vm, vars, push) ==
    [err |-> "none", cons |-> cons, varmap |-> vm, vars |-> vars, push |-> push]
Raised(what, vm, vars) ==
    [err |-> what, cons |-> <<>>, varmap |-> vm, vars |-> vars, push |-> <<>>]

\* PostComparison with a fault: every pair takes the first left element
PostComparisonFirstLeft(n, pairs) ==
    IF n \in ComparisonNames
    THEN [i \in 1..Len(pairs) |-> AddCt(NativeCompare(n, pairs[1][1], pairs[i][2]))]
    ELSE <<>>

\* the loop over zipcycle(args[0], args[1])
PostComparison(n, pairs) ==
    IF n \in ComparisonNames
    THEN [i \in 1..Len(pairs) |-> AddCt(NativeCompare(n, pairs[i][1], pairs[i][2]))]
    ELSE <<>>

\* the '->' branch: args are the converted antecedent and consequent
PostImplication(e, args) ==
    IF IsBoolVarImpl(e.args[1])
    THEN AddImplication(args[1], args[2])
    ELSE AddEnforced(args[1], args[2])

PostElement(args) == AddElement(args[2], args[1], None)

\* lb and ub of the auxiliary variable of min/max: the generator tests the
\* name `arg`, which nothing binds; min() of no argument raises first
MinMaxBounds(args) ==
    IF Len(args) = 0 THEN Err("ValueError") ELSE Err("NameError")

PostMinMax(e, args, vm, vars) ==
    LET b == MinMaxBounds(args)
        aux == Handle(Len(vars) + 1)
    IN IF IsErr(b) THEN Raised(b.what, vm, vars)
       ELSE Posted(<< IF e.name = "min" THEN AddMinEquality(aux, args)
                      ELSE AddMaxEquality(aux, args) >>,
                   vm, Append(vars, NewIntVar(b.lb, b.ub, "aux")), <<>>)

NativeVarFor(v) ==
    IF IsBoolVarImpl(Var(v)) THEN NewBoolVar(v) ELSE NewIntVar(Lb(v), Ub(v), v)

\* IsNewVariable with a fault: the membership test is dropped
IsNewVariableAlways(v, vm) == TRUE

\* `if not var in self.varmap`
IsNewVariable(v, vm) == v \notin DOMAIN vm

\* the loop creating the native variables of a decomposition
RECURSIVE RegisterNew(_, _, _)
RegisterNew(vs, vm, vars) ==
    IF vs = <<>> THEN [varmap |-> vm, vars |-> vars]
    ELSE IF IsNewVariable(Head(vs), vm)
         THEN RegisterNew(Tail(vs), (Head(vs) :> (Len(vars) + 1)) @@ vm,
                          Append(vars, NativeVarFor(Head(vs))))
         ELSE RegisterNew(Tail(vs), vm, vars)

\* DecompositionCalls with a fault: the loop posts the constraint itself again
DecompositionCallsRepost(e, flatdec) == [i \in 1..Len(flatdec) |-> e]

\* the constraints post_constraint posts recursively for a decomposition
DecompositionCalls(e, flatdec) == flatdec

PostDecomposition(e, vm, vars) ==
    LET dec == decompose(e)
    IN IF dec = None THEN Raised("NotImplementedError", vm, vars)
       ELSE LET flatdec == flatten_constraint(dec.args)
            IN IF \E i \in 1..Len(flatdec) : vars_expr_raises(flatdec[i])
               THEN Raised("Exception", vm, vars)
               ELSE LET flatvars == Flat([i \in 1..Len(flatdec) |-> vars_expr(flatdec[i])])
                        reg == RegisterNew(flatvars, vm, vars)
                    IN Posted(<<>>, reg.varmap, reg.vars, DecompositionCalls(e, flatdec))

post_constraint(e, vm, vars) ==
    IF e.kind = "neg"
    THEN IF IsErr(VarLookup(e.bv, vm)) THEN Raised("KeyError", vm, vars)
         ELSE Posted(<<AddBoolOr(<<NativeNot(VarLookup(e.bv, vm))>>)>>, vm, vars, <<>>)
    ELSE IF IsBoolVarImpl(e)
    THEN IF IsErr(VarLookup(e.name, vm)) THEN Raised("KeyError", vm, vars)
         ELSE Posted(<<AddBoolOr(<<VarLookup(e.name, vm)>>)>>, vm, vars, <<>>)
    ELSE IF e.kind = "cmp"
    THEN LET args == ConvertArgs(e, vm)
         IN IF AnyErr(args) THEN Raised(FirstErr(args).what, vm, vars)
            ELSE LET pairs == zipcycle(args[1], args[2])
                 IN IF IsErr(pairs) THEN Raised(pairs.what, vm, vars)
                    ELSE Posted(PostComparison(e.name, pairs.args), vm, vars, <<>>)
    ELSE IF e.kind = "op"
    THEN IF e.name \in {"->", "xor"}
         THEN LET args == ConvertArgs(e, vm)
              IN IF AnyErr(args) THEN Raised(FirstErr(args).what, vm, vars)
                 ELSE IF e.name = "->"
                      THEN Posted(<<PostImplication(e, args)>>, vm, vars, <<>>)
                      ELSE Posted(<<AddBoolXor(args)>>, vm, vars, <<>>)
         ELSE LET ct == convert_subexpr(e, vm)
              IN IF IsErr(ct) THEN Raised(ct.what, vm, vars)
                 ELSE Posted(<<AddCt(ct)>>, vm, vars, <<>>)
    ELSE IF e.kind = "elem"
    THEN LET args == ConvertArgs(e, vm)
         IN IF AnyErr(args) THEN Raised(FirstErr(args).what, vm, vars)
            ELSE Posted(<<PostElement(args)>>, vm, vars, <<>>)
    ELSE IF e.kind # "global" THEN Raised("AttributeError", vm, vars)
    ELSE IF e.name = "alldifferent"
    THEN LET args == ConvertArgs(e, vm)
         IN IF AnyErr(args) THEN Raised(FirstErr(args).what, vm, vars)
            ELSE Posted(<<AddAllDifferent(args)>>, vm, vars, <<>>)
    ELSE IF e.name \in {"min", "max"}
    THEN LET args == ConvertArgs(e, vm)
         IN IF AnyErr(args) THEN Raised(FirstErr(args).what, vm, vars)
            ELSE PostMinMax(e, args, vm, vars)
    ELSE PostDecomposition(e, vm, vars)

\* ----------------------------------------------------------------- solve
\* the native result codes of cp_model
NativeCodes == {"UNKNOWN", "MODEL_INVALID", "FEASIBLE", "INFEASIBLE", "OPTIMAL"}

\* ExitStatusOf with a fault: an unknown code falls back to UNSATISFIABLE
ExitStatusOfDefaulting(code) ==
    IF code = "FEASIBLE" THEN "ExitStatus.FEASIBLE"
    ELSE IF code = "OPTIMAL" THEN "ExitStatus.OPTIMAL"
    ELSE "ExitStatus.UNSATISFIABLE"

\* the if/elif chain translating self.ort_status
ExitStatusOf(code) ==
    IF code = "FEASIBLE" THEN "ExitStatus.FEASIBLE"
    ELSE IF code = "OPTIMAL" THEN "ExitStatus.OPTIMAL"
    ELSE IF code = "INFEASIBLE" THEN "ExitStatus.UNSATISFIABLE"
    ELSE "raise"

\* ShouldFill with a fault: the values are read back whatever the status
ShouldFillAlways(code) == TRUE

\* `if self.ort_status == ort.FEASIBLE or self.ort_status == ort.OPTIMAL`
ShouldFill(code) == code = "FEASIBLE" \/ code = "OPTIMAL"

\* SnapshotVariables with a fault: the snapshot is taken of the flattened model
SnapshotAfterFlatten(m) == get_variables(flatten_model(m))

\* original_vars, stored before flattening
SnapshotVariables(m) == get_variables(m)

\* `for var in original_vars: var._value = Value(varmap[var])`; a value slot
\* is {} while unset and {n} once n is stored
RECURSIVE FillLoop(_, _, _, _)
FillLoop(vs, vals, vm, sol) ==
    IF vs = <<>> THEN [value |-> vals, err |-> "none"]
    ELSE IF Head(vs) \notin DOMAIN vm THEN [value |-> vals, err |-> "KeyError"]
    ELSE FillLoop(Tail(vs), [vals EXCEPT ![Head(vs)] = {sol[vm[Head(vs)]]}], vm, sol)

\* the loop of make_model creating a native variable per model variable
RECURSIVE RegisterAll(_, _, _)
RegisterAll(vs, vm, vars) ==
    IF vs = <<>> THEN [varmap |-> vm, vars |-> vars]
    ELSE RegisterAll(Tail(vs), (Head(vs) :> (Len(vars) + 1)) @@ vm,
                     Append(vars, NativeVarFor(Head(vs))))

\* ---------------------------------------------------------- input models
Model(cs, obj, omax) == [constraints |-> cs, objective |-> obj, objective_max |-> omax]

b1 == Var("b1")
b2 == Var("b2")
x == Var("x")

LeftSide(n) == List([i \in 1..n |-> Num(i)])
RightSide(n) == List([i \in 1..n |->
                  IF i = 1 THEN b1 ELSE IF i = 2 THEN x ELSE IF i = 3 THEN Neg("b2")
                  ELSE Num(i)])

Comparisons ==
    {Cmp(n, x, Num(1)) : n \in ComparisonNames}
    \cup {Cmp("==", x, Num(k)) : k \in 0..MaxVal}
    \cup {Cmp("<=", LeftSide(n), RightSide(m)) : n \in 1..MaxLen, m \in 1..MaxLen}
    \cup {Cmp("!=", x, RightSide(m)) : m \in 1..MaxLen}
    \cup {Cmp(">", RightSide(m), b2) : m \in 1..MaxLen}

XorB == Op("xor", <<b1, b2>>)
NestedSum == Cmp("<=", Op("sum", <<b1, Op("mul", <<x, Num(2)>>)>>), Num(3))

Operators ==
    { Op("->", <<b1, b2>>), Op("->", <<b2, Cmp(">=", x, Num(1))>>),
      Op("->", <<Cmp("==", x, Num(1)), b2>>), Op("->", <<Op("sum", <<x, b1>>), Neg("b1")>>),
      XorB, Op("xor", <<b1, Neg("b2"), b2>>), Op("xor", <<b1, XorB>>),
      Op("or", <<b1, XorB>>), Op("or", <<b1, Neg("b2")>>), Op("and", <<b1, Num(0)>>),
      Op("->", <<b1, XorB>>), Op("sum", <<XorB, x>>), Op("pow", <<x, Num(2)>>),
      Op("nand", <<b1, b2>>),
      Cmp("==", XorB, b1), Cmp("<", List(<<x, XorB>>), Num(1)),
      NestedSum, Cmp("==", Op("abs", <<Op("-", <<x>>)>>), Num(1)) }

Globals ==
    { Elem(List(<<x, Num(1), b1>>), x), Elem(List(<<b1, b2>>), b1), Elem(List(<<XorB>>), x),
      Glob("alldifferent", <<x, b1, b2>>), Glob("alldifferent", <<x, XorB>>),
      Glob("min", <<x, b1>>), Glob("max", <<x, Num(1)>>), Glob("max", <<Num(1), Num(2)>>),
      Glob("gcTwoLevel", <<x, b1>>), Glob("gcTwoLevel", <<b2>>),
      Glob("gcOneLevel", <<x, b1, b2>>), Glob("gcNoDecomposition", <<x, b1>>) }

Basics == { b1, Neg("b2"), x, Other, Op("or", <<b1, Other>>) }

Catalogue == Basics \cup Comparisons \cup Operators \cup Globals

CoreConstraints ==
    { b1, Cmp("==", x, Num(1)), NestedSum, Glob("gcTwoLevel", <<x, b1>>),
      Glob("max", <<x, Num(1)>>), XorB, Op("or", <<b1, XorB>>) }

Objectives ==
    { <<None, FALSE>>, <<x, TRUE>>, <<Op("sum", <<x, b2>>), FALSE>>, <<XorB, FALSE>>,
      <<Neg("b2"), TRUE>> }

Models ==
    {Model(<<c>>, None, FALSE) : c \in Catalogue}
    \cup {Model(<<>>, o[1], o[2]) : o \in Objectives}
    \cup {Model(<<c>>, o[1], o[2]) : c \in CoreConstraints, o \in Objectives}
    \cup {Model(<<c, d>>, None, FALSE) : c \in CoreConstraints, d \in CoreConstraints}

\* ------------------------------------------------------------------ state
VARIABLES
    pc,             \* where the solve call stands
    cpm_model,      \* the argument of the current solve call
    value,          \* var._value of every variable
    pre_value,      \* value as it was when the current solve call began
    original_vars,  \* solve's local original_vars
    varmap,         \* self.varmap of the current call
    ort_vars,       \* the variables of self._model
    ort_cons,       \* the constraints of self._model
    ort_obj,        \* the objective of self._model
    todo,           \* the pending post_constraint calls, innermost first
    last,           \* the latest post_constraint call and what it did
    ort_status,     \* self.ort_status
    ort_sol,        \* what self.ort_solver.Value reports per native variable
    my_status,      \* my_status.exitstatus
    err             \* the exception the call raised

vars == << pc, cpm_model, value, pre_value, original_vars, varmap, ort_vars, ort_cons,
           ort_obj, todo, last, ort_status, ort_sol, my_status, err >>

NoPost == [expr |-> None, err |-> "none", cons |-> <<>>, nnew |-> 0]

Init ==
    /\ pc = "idle"
    /\ cpm_model = Model(<<>>, None, FALSE)
    /\ value = [v \in AllVars |-> {}]
    /\ pre_value = [v \in AllVars |-> {}]
    /\ original_vars = <<>>
    /\ varmap = <<>>
    /\ ort_vars = <<>>
    /\ ort_cons = <<>>
    /\ ort_obj = None
    /\ todo = <<>>
    /\ last = NoPost
    /\ ort_status = "none"
    /\ ort_sol = <<>>
    /\ my_status = "none"
    /\ err = "none"

\* solve up to the first post_constraint call of make_model; `supported` is
\* whether the ortools package can be imported
Solve(m, supported) ==
    /\ pc = "idle"
    /\ cpm_model' = m
    /\ pre_value' = value
    /\ varmap' = IF supported /\ ~IsErr(SnapshotVariables(m))
                 THEN RegisterAll(get_variables(flatten_model(m)).args, <<>>, <<>>).varmap
                 ELSE <<>>
    /\ ort_vars' = IF supported /\ ~IsErr(SnapshotVariables(m))
                   THEN RegisterAll(get_variables(flatten_model(m)).args, <<>>, <<>>).vars
                   ELSE <<>>
    /\ original_vars' = IF supported /\ ~IsErr(SnapshotVariables(m))
                        THEN SnapshotVariables(m).args ELSE <<>>
    /\ todo' = IF supported /\ ~IsErr(SnapshotVariables(m))
               THEN flatten_model(m).constraints ELSE <<>>
    /\ pc' = IF supported /\ ~IsErr(SnapshotVariables(m)) THEN "post" ELSE "raised"
    /\ err' = IF ~supported THEN "MissingOrtools"
              ELSE IF IsErr(SnapshotVariables(m)) THEN SnapshotVariables(m).what
              ELSE "none"
    /\ ort_cons' = <<>>
    /\ ort_obj' = None
    /\ last' = NoPost
    /\ ort_status' = "none"
    /\ ort_sol' = <<>>
    /\ my_status' = "none"
    /\ UNCHANGED value

\* one post_constraint call: of the loop of make_model, or a recursive one
PostConstraint ==
    /\ pc = "post"
    /\ todo # <<>>
    /\ LET r == post_constraint(Head(todo), varmap, ort_vars)
       IN /\ last' = [expr |-> Head(todo), err |-> r.err, cons |-> r.cons,
                      nnew |-> Len(r.vars) - Len(ort_vars)]
          /\ varmap' = r.varmap
          /\ ort_vars' = r.vars
          /\ ort_cons' = ort_cons \o r.cons
          /\ err' = r.err
          /\ pc' = IF r.err = "none" THEN "post" ELSE "raised"
          /\ todo' = IF r.err = "none" THEN r.push \o Tail(todo) ELSE <<>>
    /\ UNCHANGED << cpm_model, value, pre_value, original_vars, ort_obj, ort_status,
                    ort_sol, my_status >>

\* the end of make_model: the objective
PostObjective ==
    /\ pc = "post"
    /\ todo = <<>>
    /\ LET o == flatten_model(cpm_model).objective
           obj == IF o = None THEN None ELSE convert_subexpr(o, varmap)
       IN /\ err' = IF IsErr(obj) THEN obj.what ELSE "none"
          /\ pc' = IF IsErr(obj) THEN "raised" ELSE "search"
          /\ ort_obj' = IF o = None \/ IsErr(obj) THEN None
                        ELSE [sense |-> IF cpm_model.objective_max THEN "Maximize"
                                        ELSE "Minimize",
                              obj |-> obj]
    /\ UNCHANGED << cpm_model, value, pre_value, original_vars, varmap, ort_vars, ort_cons,
                    todo, last, ort_status, ort_sol, my_status >>

\* self.ort_solver.Solve: any result code, and the k-th of the assignments
\* the native variables' domains allow
NativeSolve(code, k) ==
    /\ pc = "search"
    /\ ort_status' = code
    /\ ort_sol' = [i \in 1..Len(ort_vars) |->
                     ort_vars[i].lb + ((i + k) % (ort_vars[i].ub - ort_vars[i].lb + 1))]
    /\ pc' = "solved"
    /\ UNCHANGED << cpm_model, value, pre_value, original_vars, varmap, ort_vars, ort_cons,
                    ort_obj, todo, last, my_status, err >>

\* the rest of solve: translate the status, fill in the variables, return
TranslateStatus ==
    /\ pc = "solved"
    /\ LET st == ExitStatusOf(ort_status)
           fill == IF st # "raise" /\ ShouldFill(ort_status)
                   THEN FillLoop(original_vars, value, varmap, ort_sol)
                   ELSE [value |-> value, err |-> "none"]
       IN /\ my_status' = IF st = "raise" THEN "none" ELSE st
          /\ value' = fill.value
          /\ err' = IF st = "raise" THEN "NotImplementedError" ELSE fill.err
          /\ pc' = IF st # "raise" /\ fill.err = "none" THEN "returned" ELSE "raised"
    /\ UNCHANGED << cpm_model, pre_value, original_vars, varmap, ort_vars, ort_cons,
                    ort_obj, todo, last, ort_status, ort_sol >>

\* the call is over (returned or raised): the caller keeps the variables and
\* their values; the registry and the native model of the call are dropped
Return ==
    /\ pc \in {"returned", "raised"}
    /\ pc' = "idle"
    /\ cpm_model' = Model(<<>>, None, FALSE)
    /\ pre_value' = value
    /\ original_vars' = <<>>
    /\ varmap' = <<>>
    /\ ort_vars' = <<>>
    /\ ort_cons' = <<>>
    /\ ort_obj' = None
    /\ todo' = <<>>
    /\ last' = NoPost
    /\ ort_status' = "none"
    /\ ort_sol' = <<>>
    /\ my_status' = "none"
    /\ err' = "none"
    /\ UNCHANGED value

Next ==
    \/ \E m \in Models, supported \in BOOLEAN : Solve(m, supported)
    \/ PostConstraint
    \/ PostObjective
    \/ \E code \in NativeCodes, k \in 0..MaxVal : NativeSolve(code, k)
    \/ TranslateStatus
    \/ Return

Spec == Init /\ [][Next]_vars

\* ================================================================= claims
RECURSIVE ExprVarSet(_)
ExprVarSet(e) ==
    IF HasArgs(e) THEN UNION {ExprVarSet(e.args[i]) : i \in 1..Len(e.args)}
    ELSE IF e.kind = "var" THEN {e.name}
    ELSE IF e.kind = "neg" THEN {e.bv}
    ELSE {}

ModelVarSet(m) ==
    UNION {ExprVarSet(m.constraints[i]) : i \in 1..Len(m.constraints)}
    \cup ExprVarSet(m.objective)

RECURSIVE ContainsXor(_)
ContainsXor(e) ==
    \/ e.kind = "op" /\ e.name = "xor"
    \/ HasArgs(e) /\ \E i \in 1..Len(e.args) : ContainsXor(e.args[i])

\* the constraints whose arguments post_constraint hands to convert_subexpr
ConvertsItsArgs(e) ==
    \/ e.kind \in {"cmp", "op", "elem"}
    \/ e.kind = "global" /\ e.name \in {"alldifferent", "min", "max"}

NestedXor(e) == ConvertsItsArgs(e) /\ \E i \in 1..Len(e.args) : ContainsXor(e.args[i])

PlainArgs(e) == \A i \in 1..Len(e.args) : e.args[i].kind \in {"var", "neg", "num"}

\* C1: a returned status record carries FEASIBLE for native FEASIBLE, OPTIMAL
\* for native OPTIMAL and UNSATISFIABLE for native INFEASIBLE; on any other
\* native code solve raises NotImplementedError and no status is returned.
C1_StatusMapping ==
    /\ pc = "returned" =>
         \/ ort_status = "FEASIBLE" /\ my_status = "ExitStatus.FEASIBLE"
         \/ ort_status = "OPTIMAL" /\ my_status = "ExitStatus.OPTIMAL"
         \/ ort_status = "INFEASIBLE" /\ my_status = "ExitStatus.UNSATISFIABLE"
    /\ (pc \in {"returned", "raised"}
        /\ ort_status \in NativeCodes \ {"FEASIBLE", "OPTIMAL", "INFEASIBLE"}) =>
         pc = "raised" /\ err = "NotImplementedError" /\ my_status = "none"

C1_Witness ==
    pc = "raised" /\ ort_status = "MODEL_INVALID" /\ err = "NotImplementedError"

\* C2: a solve call that ends otherwise than with status feasible or optimal
\* (unsatisfiable, or any raised error) leaves every value slot as it was when
\* the call began.
C2_FailedSolveKeepsValues ==
    (pc \in {"returned", "raised"}
     /\ my_status \notin {"ExitStatus.FEASIBLE", "ExitStatus.OPTIMAL"}) =>
        value = pre_value

C2_Witness ==
    /\ pc = "returned"
    /\ my_status = "ExitStatus.UNSATISFIABLE"
    /\ \E i \in 1..Len(original_vars) :
         /\ value[original_vars[i]] # {}
         /\ value[original_vars[i]] # {ort_sol[varmap[original_vars[i]]]}

\* C3: when solve returns feasible or optimal, every variable reachable from
\* the constraints and objective of the original model holds the value of its
\* own registry handle, every other variable keeps its value, and no auxiliary
\* variable is ever written.
C3_WriteBackTargets ==
    /\ (pc = "returned" /\ my_status \in {"ExitStatus.FEASIBLE", "ExitStatus.OPTIMAL"}) =>
         \A v \in AllVars :
            IF v \in ModelVarSet(cpm_model)
            THEN v \in DOMAIN varmap /\ value[v] = {ort_sol[varmap[v]]}
            ELSE value[v] = pre_value[v]
    /\ \A v \in AuxVars : value[v] = {}

C3_Witness ==
    /\ pc = "returned"
    /\ my_status = "ExitStatus.OPTIMAL"
    /\ {"f1", "d1", "d2"} \subseteq DOMAIN varmap
    /\ value["x"] # pre_value["x"]
    /\ value["b2"] = pre_value["b2"] /\ value["b2"] # {}

\* C4: no registry lookup misses (every variable of a pending constraint and
\* of the objective is registered while constraints are posted), and within a
\* solve call a registry entry never changes its handle.
C4_RegisteredBeforeUse ==
    /\ err # "KeyError"
    /\ pc = "post" =>
         /\ \A i \in 1..Len(todo) : ExprVarSet(todo[i]) \subseteq DOMAIN varmap
         /\ ExprVarSet(cpm_model.objective) \subseteq DOMAIN varmap

C5_XorSubexpression ==
    /\ NestedXor(last.expr) => last.err # "none" /\ last.cons = <<>>
    /\ (cpm_model.objective # None /\ ContainsXor(cpm_model.objective)) =>
          pc \notin {"search", "solved", "returned"} /\ ort_obj = None
    /\ IsErr(convert_subexpr(XorB, varmap))
    /\ (last.expr.kind = "op" /\ last.expr.name = "xor" /\ PlainArgs(last.expr)) =>
          /\ last.err = "none"
          /\ last.cons = <<AddBoolXor(ConvertArgs(last.expr, varmap))>>

C5_Witness ==
    /\ pc = "raised"
    /\ NestedXor(last.expr)
    /\ last.err = "XorSubexpr"
    /\ \E i \in 1..Len(ort_cons) : ort_cons[i].kind = "AddBoolXor"

\* C6: a posted comparison adds one Add per cyclic pair of its converted
\* sides: max(n, m) constraints, the i-th over the i-th element of each side
\* (the only element of a side of length 1), one constraint for two scalars;
\* posting succeeds only if a side has length 1 or the lengths match.
SideLen(e) == IF e.kind = "list" THEN Len(e.args) ELSE 1
SideAt(c, i) == IF c.kind = "list" THEN c.args[IF Len(c.args) = 1 THEN 1 ELSE i] ELSE c

C7_ImplicationEnforcedOnAntecedent ==
    (last.expr.kind = "op" /\ last.expr.name = "->" /\ last.err = "none") =>
       LET a == convert_subexpr(last.expr.args[1], varmap)
           b == convert_subexpr(last.expr.args[2], varmap)
       IN IF IsBoolVarImpl(last.expr.args[1])
          THEN last.cons = <<AddImplication(a, b)>>
          ELSE last.cons = <<AddEnforced(b, a)>>

\* C8: posting min or max over variables and constants raises nothing, creates
\* exactly one auxiliary native variable and posts exactly one AddMinEquality
\* (min) or AddMaxEquality (max) over the converted arguments.
C8_MinMaxPosted ==
    (last.expr.kind = "global" /\ last.expr.name \in {"min", "max"}
     /\ PlainArgs(last.expr) /\ Len(last.expr.args) > 0) =>
       /\ last.err = "none"
       /\ last.nnew = 1
       /\ Len(last.cons) = 1
       /\ last.cons[1].kind = (IF last.expr.name = "min" THEN "AddMinEquality"
                               ELSE "AddMaxEquality")
       /\ last.cons[1].args = ConvertArgs(last.expr, varmap)

\* C9: a posted element expression A0[A1] adds one AddElement over the converted
\* index A1 and the converted array A0 whose result is not None.
C9_ElementLinksResult ==
    (last.expr.kind = "elem" /\ last.err = "none") =>
       /\ Len(last.cons) = 1
       /\ last.cons[1].kind = "AddElement"
       /\ last.cons[1].index = convert_subexpr(last.expr.args[2], varmap)
       /\ last.cons[1].array = convert_subexpr(last.expr.args[1], varmap)
       /\ last.cons[1].target # None

\* C10: every post_constraint call either raises or strictly lowers a
\* natural-valued measure of the pending calls, so the chain of recursive
\* calls is finite; a global constraint with no native translation and no
\* decomposition raises NotImplementedError and posts nothing further.
RECURSIVE Power(_, _)
Power(b, n) == IF n = 0 THEN 1 ELSE b * Power(b, n - 1)

RECURSIVE Measure(_)
Measure(s) ==
    IF s = <<>> THEN 0 ELSE Power(MaxLen + 4, DecompLevel(Head(s))) + Measure(Tail(s))

NoTranslation(e) ==
    /\ e.kind = "global"
    /\ e.name \notin {"alldifferent", "min", "max"}
    /\ decompose(e) = None

====
